---- MODULE Spec2Model ----
(***************************************************************************)
(* Model of the item-drops development proxy of vite.config.ts: the       *)
(* probability parser, the wiki page table extractor, the local override   *)
(* loader, the merge/dedup loop and the GET /item-drops request handler    *)
(* with its two process-wide caches.                                       *)
(*                                                                         *)
(* Text is modelled as a sequence of one-character strings, so that the    *)
(* regular expressions, trims, joins and template strings of the source    *)
(* are computed character by character.  An optional value (undefined or   *)
(* null in the source) is the empty tuple None, a present value v is the   *)
(* one-element tuple Some(v).  A number produced by the parser is an exact *)
(* fraction [n, d].                                                        *)
(***************************************************************************)
EXTENDS Integers, Sequences, FiniteSets, TLC

VARIABLES
    mappingCache,     \* vite.config.ts:30   None, or Some(array of [id, name])
    itemDropsCache,   \* vite.config.ts:255  None (server.itemDropsCache unset) or Some(map)
    req,              \* per request: position in the handler, locals, response, history
    nextReq,          \* number of the next request to arrive
    mappingAssigned,  \* history: how many times line 34 has assigned mappingCache
    chanceDropsDir,   \* files of public/chance_drops read by loadLocalChanceDrops
    raw,              \* input of parseDropRateNumeric
    rateResult,       \* <<"unset">> or <<"set", result>>
    mOverrides,       \* localDrops of the merge loop
    mScraped,         \* sources of the merge loop
    mResult,          \* <<"unset">> or <<"set", deduped.sources>>
    xPage,            \* page given to parseItemPage
    xParsed,          \* <<"unset">> or <<"set", result of parseItemPage>>
    xFinal            \* <<"unset">> or <<"set", deduped.sources>>

vars == <<mappingCache, itemDropsCache, req, nextReq, mappingAssigned, chanceDropsDir,
          raw, rateResult, mOverrides, mScraped, mResult, xPage, xParsed, xFinal>>

serverVars == <<mappingCache, itemDropsCache, req, nextReq, mappingAssigned, chanceDropsDir>>
parseVars == <<raw, rateResult>>
mergeVars == <<mOverrides, mScraped, mResult>>
extractVars == <<xPage, xParsed, xFinal>>

----------------------------------------------------------------------------
(* Optional values and text helpers                                        *)

None == <<>>
Some(v) == <<v>>
IsSome(o) == Len(o) = 1
Val(o) == o[1]

Unset == <<"unset">>
SetTo(v) == <<"set", v>>
IsSet(x) == x[1] = "set"

DigitChars == {"0", "1", "2", "3", "4", "5", "6", "7", "8", "9"}

DigitVal(c) ==
    CASE c = "0" -> 0 [] c = "1" -> 1 [] c = "2" -> 2 [] c = "3" -> 3 [] c = "4" -> 4
      [] c = "5" -> 5 [] c = "6" -> 6 [] c = "7" -> 7 [] c = "8" -> 8 [] c = "9" -> 9

DigitChar(n) ==
    CASE n = 0 -> "0" [] n = 1 -> "1" [] n = 2 -> "2" [] n = 3 -> "3" [] n = 4 -> "4"
      [] n = 5 -> "5" [] n = 6 -> "6" [] n = 7 -> "7" [] n = 8 -> "8" [] n = 9 -> "9"

\* \s of a JavaScript regular expression and the characters String.trim removes
WhiteSpace == {" ", "\t", "\n"}

UpperChars == {"A", "B", "C", "D", "E", "F", "G", "H", "I", "J", "K", "L", "M",
               "N", "O", "P", "Q", "R", "S", "T", "U", "V", "W", "X", "Y", "Z"}

LowerOfUpper(c) ==
    CASE c = "A" -> "a" [] c = "B" -> "b" [] c = "C" -> "c" [] c = "D" -> "d"
      [] c = "E" -> "e" [] c = "F" -> "f" [] c = "G" -> "g" [] c = "H" -> "h"
      [] c = "I" -> "i" [] c = "J" -> "j" [] c = "K" -> "k" [] c = "L" -> "l"
      [] c = "M" -> "m" [] c = "N" -> "n" [] c = "O" -> "o" [] c = "P" -> "p"
      [] c = "Q" -> "q" [] c = "R" -> "r" [] c = "S" -> "s" [] c = "T" -> "t"
      [] c = "U" -> "u" [] c = "V" -> "v" [] c = "W" -> "w" [] c = "X" -> "x"
      [] c = "Y" -> "y" [] c = "Z" -> "z"

LowerChar(c) == IF c \in UpperChars THEN LowerOfUpper(c) ELSE c

\* String.prototype.toLowerCase
toLowerCase(s) == [i \in 1..Len(s) |-> LowerChar(s[i])]

\* String.prototype.includes: w occurs in s as a substring
includes(s, w) ==
    \E i \in 1..(Len(s) - Len(w) + 1) : SubSeq(s, i, i + Len(w) - 1) = w

\* RegExp.test for an alternation of literal words
TestAny(s, words) == \E w \in words : includes(s, w)

\* String.prototype.startsWith
startsWith(s, p) == Len(s) >= Len(p) /\ SubSeq(s, 1, Len(p)) = p

RECURSIVE TrimLeft(_)
TrimLeft(s) ==
    IF s # <<>> /\ Head(s) \in WhiteSpace THEN TrimLeft(Tail(s)) ELSE s

RECURSIVE TrimRight(_)
TrimRight(s) ==
    IF s # <<>> /\ s[Len(s)] \in WhiteSpace THEN TrimRight(SubSeq(s, 1, Len(s) - 1)) ELSE s

\* String.prototype.trim
trim(s) == TrimRight(TrimLeft(s))

\* s.replace(/\s+/g, " "): every run of white space becomes one space
RECURSIVE CollapseSpaces(_)
CollapseSpaces(s) ==
    IF s = <<>> THEN <<>>
    ELSE IF Head(s) \in WhiteSpace
         THEN <<" ">> \o CollapseSpaces(TrimLeft(s))
         ELSE <<Head(s)>> \o CollapseSpaces(Tail(s))

\* s.replace(/,/g, "")
RECURSIVE StripCommas(_)
StripCommas(s) ==
    IF s = <<>> THEN <<>>
    ELSE IF Head(s) = "," THEN StripCommas(Tail(s))
         ELSE <<Head(s)>> \o StripCommas(Tail(s))

\* Array.prototype.join
RECURSIVE join(_, _)
join(parts, sep) ==
    IF parts = <<>> THEN <<>>
    ELSE IF Len(parts) = 1 THEN parts[1]
         ELSE parts[1] \o sep \o join(Tail(parts), sep)

RECURSIVE Pow10(_)
Pow10(k) == IF k = 0 THEN 1 ELSE 10 * Pow10(k - 1)

\* value of a run of decimal digits
RECURSIVE DecVal(_)
DecVal(digs) ==
    IF digs = <<>> THEN 0
    ELSE 10 * DecVal(SubSeq(digs, 1, Len(digs) - 1)) + DigitVal(digs[Len(digs)])

\* index of the last character of the maximal digit run starting at i (i - 1 when none)
RECURSIVE DigitRunEnd(_, _)
DigitRunEnd(s, i) ==
    IF i <= Len(s) /\ s[i] \in DigitChars THEN DigitRunEnd(s, i + 1) ELSE i - 1

\* first index >= i that holds no white space (the greedy \s*)
RECURSIVE SkipSpaces(_, _)
SkipSpaces(s, i) ==
    IF i <= Len(s) /\ s[i] \in WhiteSpace THEN SkipSpaces(s, i + 1) ELSE i

\* Number(t) for t = digits or digits.digits, as the exact fraction it denotes
DecimalToNumber(t) ==
    LET e == DigitRunEnd(t, 1)
        int == SubSeq(t, 1, e)
        frac == IF e < Len(t) THEN SubSeq(t, e + 2, Len(t)) ELSE <<>>
    IN [n |-> DecVal(int \o frac), d |-> Pow10(Len(frac))]

\* a / b of two fractions, b > 0
Divide(a, b) == [n |-> a.n * b.d, d |-> a.d * b.n]

----------------------------------------------------------------------------
(* parseDropRateNumeric, vite.config.ts:49-69                              *)

\* end of the greedy match of \d+(?:\.\d+)? at i, 0 when it does not match
MatchDecimal(s, i) ==
    LET e1 == DigitRunEnd(s, i)
        e2 == DigitRunEnd(s, e1 + 2)
    IN IF e1 < i THEN 0
       ELSE IF e1 + 1 <= Len(s) /\ s[e1 + 1] = "." /\ e2 >= e1 + 2 THEN e2
       ELSE e1

\* end of the greedy match of (?:,\d{3})* after index e
RECURSIVE MatchCommaGroups(_, _)
MatchCommaGroups(s, e) ==
    IF /\ e + 4 <= Len(s)
       /\ s[e + 1] = ","
       /\ \A k \in (e + 2)..(e + 4) : s[k] \in DigitChars
    THEN MatchCommaGroups(s, e + 4)
    ELSE e

\* end of the greedy match of \d+(?:,\d{3})*(?:\.\d+)? at i, 0 when it does not match
MatchDenominator(s, i) ==
    LET e1 == DigitRunEnd(s, i)
        e2 == MatchCommaGroups(s, e1)
        e3 == DigitRunEnd(s, e2 + 2)
    IN IF e1 < i THEN 0
       ELSE IF e2 + 1 <= Len(s) /\ s[e2 + 1] = "." /\ e3 >= e2 + 2 THEN e3
       ELSE e2

\* the groups of a match that starts at i, with numerator end e and denominator end f
FractionGroups(s, i, e, f) ==
    IF f # 0 THEN <<SubSeq(s, i, e), SubSeq(s, e + 2, f)>> ELSE <<>>

\* the "/" and the denominator after a numerator that ends at e (0: no numerator)
MatchSlashAfter(s, i, e) ==
    IF e # 0 /\ e + 1 <= Len(s) /\ s[e + 1] = "/"
    THEN FractionGroups(s, i, e, MatchDenominator(s, e + 2))
    ELSE <<>>

\* /(\d+(?:\.\d+)?)\/(\d+(?:,\d{3})*(?:\.\d+)?)/ anchored at i: <<m[1], m[2]>> or <<>>
MatchFractionAt(s, i) == MatchSlashAfter(s, i, MatchDecimal(s, i))

\* raw.match(...) of line 52: the leftmost match
MatchFraction(s) ==
    LET starts == {i \in 1..Len(s) : MatchFractionAt(s, i) # <<>>}
    IN IF starts = {} THEN <<>>
       ELSE MatchFractionAt(s, CHOOSE i \in starts : \A j \in starts : i <= j)

\* the group (\d+(?:\.\d+)?) at k, ending at e (0: no match)
OneInGroup(s, k, e) == IF e # 0 THEN <<SubSeq(s, k, e)>> ELSE <<>>

\* the denominator at k, the index after the separator (0: no separator)
MatchOneInDenominator(s, k) ==
    IF k = 0 THEN <<>> ELSE OneInGroup(s, k, MatchDecimal(s, k))

\* (?:\s*in\s*|\s*:\s*) with its leading white space skipped up to j: the index
\* after the separator and its trailing white space, 0 when there is none
MatchSeparator(s, j) ==
    IF j + 1 <= Len(s) /\ LowerChar(s[j]) = "i" /\ LowerChar(s[j + 1]) = "n"
    THEN SkipSpaces(s, j + 2)
    ELSE IF j <= Len(s) /\ s[j] = ":" THEN SkipSpaces(s, j + 1)
    ELSE 0

\* /1(?:\s*in\s*|\s*:\s*)(\d+(?:\.\d+)?)/i anchored at i: <<m2[1]>> or <<>>
MatchOneInAt(s, i) ==
    IF s[i] = "1"
    THEN MatchOneInDenominator(s, MatchSeparator(s, SkipSpaces(s, i + 1)))
    ELSE <<>>

\* raw.match(...) of line 62: the leftmost match
MatchOneIn(s) ==
    LET starts == {i \in 1..Len(s) : MatchOneInAt(s, i) # <<>>}
    IN IF starts = {} THEN <<>>
       ELSE MatchOneInAt(s, CHOOSE i \in starts : \A j \in starts : i <= j)

\* line 65: 1 / denom when denom > 0 (a parsed digit string is never NaN)
OneOver(denom) == IF denom.n > 0 THEN Some(Divide([n |-> 1, d |-> 1], denom)) ELSE None

\* lines 63-66, given the match m2: None when the pattern gives no value
OneInValue(m2) ==
    IF m2 # <<>> THEN OneOver(DecimalToNumber(m2[1])) ELSE None

\* lines 57-59: numerator / denom when denom > 0
Quotient(numerator, denom) ==
    IF denom.n > 0 THEN Some(Divide(numerator, denom)) ELSE None

\* lines 53-60, given the match m: None when the pattern gives no value
FractionValue(m) ==
    IF m # <<>>
    THEN Quotient(DecimalToNumber(m[1]), DecimalToNumber(StripCommas(m[2])))
    ELSE None

\* lines 52-68 for a non-empty string: the first pattern, else the second
FirstValue(first, s) == IF IsSome(first) THEN first ELSE OneInValue(MatchOneIn(s))

parseDropRateNumeric(rawOpt) ==
    IF ~IsSome(rawOpt) \/ Val(rawOpt) = <<>> THEN None
    ELSE FirstValue(FractionValue(MatchFraction(Val(rawOpt))), Val(rawOpt))

----------------------------------------------------------------------------
(* Word lists of the regular expressions of parseItemPage, each            *)
(* alternative in lower case (the tests are made on lower-cased text)      *)

\* line 132
ThievingWords ==
    {<<"p","i","c","k","p","o","c","k","e","t">>,
     <<"p","i","c","k","p","o","c","k","e","t","i","n","g">>,
     <<"s","t","a","l","l">>,
     <<"t","h","i","e","v","i","n","g">>}

\* line 133
MinigameWords ==
    {<<"b","a","r","r","o","w","s">>,
     <<"m","i","n","i","g","a","m","e">>,
     <<"g","a","u","n","t","l","e","t">>,
     <<"r","a","i","d","s">>,
     <<"t","r","e","a","s","u","r","e"," ","t","r","a","i","l","s">>,
     <<"t","r","e","a","s","u","r","e"," ","t","r","a","i","l">>,
     <<"c","l","u","e">>}

\* line 134
SkillingWords ==
    {<<"f","i","s","h">>,
     <<"f","i","s","h","i","n","g">>,
     <<"h","a","r","p","o","o","n">>,
     <<"n","e","t">>,
     <<"f","i","s","h","i","n","g"," ","s","p","o","t">>,
     <<"m","i","n","i","n","g">>,
     <<"m","i","n","e">>,
     <<"o","r","e">>,
     <<"w","o","o","d","c","u","t">>,
     <<"l","o","g">>,
     <<"c","h","o","p">>,
     <<"f","a","r","m">>,
     <<"s","k","i","l","l","i","n","g">>}

\* line 135, case-insensitive
ContainerWords ==
    {<<"c","h","e","s","t">>,
     <<"c","u","p","b","o","a","r","d">>,
     <<"c","r","a","t","e">>,
     <<"d","r","a","w","e","r">>,
     <<"s","h","e","l","f">>,
     <<"c","o","f","f","i","n">>,
     <<"b","o","x">>,
     <<"a","l","t","a","r">>,
     <<"t","r","o","u","g","h">>,
     <<"c","o","n","t","a","i","n","e","r">>}

\* line 136, case-insensitive
MonsterWords ==
    {<<"n","p","c">>,
     <<"m","o","n","s","t","e","r">>,
     <<"b","o","s","s">>,
     <<"g","u","a","r","d">>,
     <<"s","h","a","d","e">>,
     <<"g","i","a","n","t">>,
     <<"d","r","a","g","o","n">>,
     <<"r","a","b","b","i","t">>,
     <<"r","a","t">>,
     <<"g","o","b","l","i","n">>,
     <<"m","a","n">>,
     <<"w","o","m","a","n">>,
     <<"d","e","m","o","n">>,
     <<"z","o","m","b","i","e">>,
     <<"s","k","e","l","e","t","o","n">>}

\* line 137, case-insensitive
ClueWords ==
    {<<"c","l","u","e">>,
     <<"c","a","s","k","e","t">>,
     <<"t","r","e","a","s","u","r","e"," ","t","r","a","i","l">>}

\* line 115
RateWords ==
    {<<"c","h","a","n","c","e">>,
     <<"c","h","a","n","c","e"," ","t","o">>,
     <<"r","a","r","e">>,
     <<"c","o","m","m","o","n">>,
     <<"u","n","c","o","m","m","o","n">>,
     <<"1"," ","i","n">>,
     <<"1","/">>,
     <<"d","r","o","p">>}

\* line 178, case-insensitive
MonsterHeadings ==
    {<<"d","r","o","p"," ","s","o","u","r","c","e","s">>,
     <<"d","r","o","p","s">>,
     <<"m","o","n","s","t","e","r"," ","d","r","o","p","s">>}

\* line 179, case-insensitive
ThievingHeadings ==
    {<<"t","h","i","e","v","i","n","g">>,
     <<"p","i","c","k","p","o","c","k","e","t","i","n","g">>,
     <<"s","t","a","l","l","s">>}

\* line 180, case-insensitive
ClueHeadings ==
    {<<"c","l","u","e">>,
     <<"t","r","e","a","s","u","r","e"," ","t","r","a","i","l","s">>,
     <<"c","a","s","k","e","t">>}

\* line 181, case-insensitive
ContainerHeadings ==
    {<<"c","h","e","s","t">>,
     <<"c","u","p","b","o","a","r","d">>,
     <<"d","r","a","w","e","r">>,
     <<"c","o","n","t","a","i","n","e","r">>}

\* line 172, case-insensitive
SourceTableClasses ==
    {<<"i","t","e","m","-","d","r","o","p","s">>,
     <<"w","i","k","i","t","a","b","l","e">>,
     <<"i","n","f","o","b","o","x">>,
     <<"i","t","e","m","s","o","u","r","c","e","s">>,
     <<"i","t","e","m","-","d","r","o","p","-","t","a","b","l","e">>}

TypeOther == <<"o","t","h","e","r">>

TypeThieving == <<"t","h","i","e","v","i","n","g">>

TypeMinigame == <<"m","i","n","i","g","a","m","e">>

TypeSkilling == <<"s","k","i","l","l","i","n","g">>

TypeContainer == <<"c","o","n","t","a","i","n","e","r">>

TypeMonster == <<"m","o","n","s","t","e","r">>

TypeClue == <<"c","l","u","e">>


WikiBase == <<"h","t","t","p","s",":","/","/","o","l","d","s","c","h","o","o","l",".","r","u","n","e","s","c","a","p","e",".","w","i","k","i","/","w","/">>

ItemPrefix == <<"I","t","e","m","_">>

KeyPrefix == <<"i","t","e","m","_">>

ClassItemDrops == <<"i","t","e","m","-","d","r","o","p","s">>

ClassWikitable == <<"w","i","k","i","t","a","b","l","e">>

\* the en dash of /x?\s?(\d+–\d+|\d+)\b/ (line 123), kept as one character
EnDash == "en-dash"

\* \w of a JavaScript regular expression
WordChars ==
    DigitChars \cup UpperChars \cup {"_"} \cup
    {"a", "b", "c", "d", "e", "f", "g", "h", "i", "j", "k", "l", "m",
     "n", "o", "p", "q", "r", "s", "t", "u", "v", "w", "x", "y", "z"}

----------------------------------------------------------------------------
(* parseItemPage, vite.config.ts:72-197                                    *)
(*                                                                         *)
(* A page is [h1, body]: h1 is the text of h1#firstHeading ("" when the    *)
(* page has none) and body the sequence of sibling elements that holds the *)
(* headings.  An element is [tag, text, tables]: a heading (tag "h2" or    *)
(* "h3") with its text, a table (tag "table", tables = <<the table>>) or   *)
(* any other element with the tables found inside it.  A table is          *)
(* [classes, rows], a row the sequence of its td/th cells, a cell          *)
(* [text, href] with href the href of the first anchor in it, if any.     *)

\* lines 78-86
extractLinkFromCell(cell) ==
    IF IsSome(cell.href)
    THEN LET href == Val(cell.href)
         IN IF href = <<>> THEN None
            ELSE IF startsWith(href, <<"/">>) THEN Some(<<"h","t","t","p","s",":","/","/","o","l","d","s","c","h","o","o","l",".","r","u","n","e","s","c","a","p","e",".","w","i","k","i">> \o href)
            ELSE IF startsWith(href, <<"h","t","t","p">>) THEN Some(href)
            ELSE None
    ELSE None

\* line 115: does the lower-cased cell text look like a rate
LooksLikeRate(txt) ==
    includes(txt, <<"/">>) \/ includes(txt, <<"%">>) \/ TestAny(txt, RateWords)

\* lines 112-119: the first cell that looks like a rate
FindRawRate(colTexts) ==
    LET hits == {i \in 1..Len(colTexts) : LooksLikeRate(toLowerCase(colTexts[i]))}
    IN IF hits = {} THEN None
       ELSE Some(colTexts[CHOOSE i \in hits : \A j \in hits : i <= j])

\* \b after index e: s[e] is a word character, so the next one must not be
BoundaryAfter(s, e) == e = Len(s) \/ s[e + 1] \notin WordChars

\* (\d+–\d+|\d+)\b anchored at digit index i: the captured text or <<>>
MatchQuantityAt(s, i) ==
    LET e1 == DigitRunEnd(s, i)
        e2 == DigitRunEnd(s, e1 + 2)
    IN IF e1 < i THEN <<>>
       ELSE IF e1 + 1 <= Len(s) /\ s[e1 + 1] = EnDash /\ e2 >= e1 + 2 /\ BoundaryAfter(s, e2)
            THEN SubSeq(s, i, e2)
       ELSE IF BoundaryAfter(s, e1) THEN SubSeq(s, i, e1)
       ELSE <<>>

\* lines 122-124: capture 1 of the leftmost match of /x?\s?(\d+–\d+|\d+)\b/
MatchQuantity(s) ==
    LET starts == {i \in 1..Len(s) : MatchQuantityAt(s, i) # <<>>}
    IN IF starts = {} THEN None
       ELSE Some(MatchQuantityAt(s, CHOOSE i \in starts : \A j \in starts : i <= j))

\* lines 130-137: the type cascade on the source name and the notes
HeuristicType(sourceName, notes) ==
    LET s == toLowerCase(sourceName)
        n == toLowerCase(IF IsSome(notes) THEN Val(notes) ELSE <<>>)
    IN IF TestAny(s, ThievingWords) THEN TypeThieving
       ELSE IF TestAny(s, MinigameWords) THEN TypeMinigame
       ELSE IF TestAny(s, SkillingWords) THEN TypeSkilling
       ELSE IF TestAny(s, ContainerWords) THEN TypeContainer
       ELSE IF TestAny(s, MonsterWords) THEN TypeMonster
       ELSE IF TestAny(n, ClueWords) THEN TypeClue
       ELSE TypeOther

\* x || undefined for a string x
NonEmpty(s) == IF s = <<>> THEN None ELSE Some(s)

\* lines 109-150, given the row's texts, source name, raw rate and notes
MakeSource(row, colTexts, sourceName, rawRate, notes) ==
    IF sourceName = <<>> THEN None
    ELSE Some([sourceName |-> sourceName,
               type |-> HeuristicType(sourceName, notes),
               dropRateRaw |-> rawRate,
               dropRateNumeric |-> parseDropRateNumeric(rawRate),
               quantity |-> MatchQuantity(join(colTexts, <<" ">>)),
               requirements |-> None,
               notes |-> notes,
               wikiUrl |-> extractLinkFromCell(row[1])])

\* an extractor that requires four cells of a row
RowToSourceMin4(row, colTexts) ==
    IF Len(row) < 4 THEN None
    ELSE MakeSource(row, colTexts,
                    trim(CollapseSpaces(colTexts[1])),
                    FindRawRate(colTexts),
                    NonEmpty(trim(join(Tail(colTexts), <<" ", "|", " ">>))))

\* lines 103-127, given the trimmed texts of the row's cells (line 106)
RowToSource(row, colTexts) ==
    IF Len(row) = 0 THEN None
    ELSE MakeSource(row, colTexts,
                    trim(CollapseSpaces(colTexts[1])),
                    FindRawRate(colTexts),
                    NonEmpty(trim(join(Tail(colTexts), <<" ", "|", " ">>))))

\* lines 100-151: None for null, Some(DropSource) otherwise
parseSourceRow(row) == RowToSource(row, [i \in 1..Len(row) |-> trim(row[i].text)])

\* lines 178-181: the heading's type hints, the last one that applies winning
HeadingType(heading, type) ==
    LET h == toLowerCase(heading)
        t1 == IF TestAny(h, MonsterHeadings) THEN TypeMonster ELSE type
        t2 == IF TestAny(h, ThievingHeadings) THEN TypeThieving ELSE t1
        t3 == IF TestAny(h, ClueHeadings) THEN TypeClue ELSE t2
    IN IF TestAny(h, ContainerHeadings) THEN TypeContainer ELSE t3

RECURSIVE Flatten(_)
Flatten(seqs) == IF seqs = <<>> THEN <<>> ELSE Head(seqs) \o Flatten(Tail(seqs))

\* the DropSources of the rows of one table, in row order: a row gives <<ds>>,
\* or <<>> when parseSourceRow returns null
RowSources(rows) == Flatten([i \in 1..Len(rows) |-> parseSourceRow(rows[i])])

IsHeading(el) == el.tag \in {"h2", "h3"}

\* lines 157-166: the tables between heading h and the next h2/h3 sibling
CollectedTables(body, h) ==
    LET later == {j \in (h + 1)..Len(body) : IsHeading(body[j])}
        stop == IF later = {} THEN Len(body) + 1
                ELSE CHOOSE j \in later : \A k \in later : j <= k
    IN Flatten([j \in 1..(stop - h - 1) |-> body[h + j].tables])

\* line 172: the table is skipped when its class does not look like a source
\* table and it has no rows
SkippedTable(t) ==
    /\ ~TestAny(toLowerCase(join(t.classes, <<" ">>)), SourceTableClasses)
    /\ Len(t.rows) = 0

\* lines 176-182: the heading's type hint attached to each DropSource found
WithHeadingType(found, heading) ==
    [i \in 1..Len(found) |-> [found[i] EXCEPT !.type = HeadingType(heading, found[i].type)]]

\* lines 168-185: the tables collected under one heading
TablesSources(tables, heading) ==
    Flatten([k \in 1..Len(tables) |->
          IF SkippedTable(tables[k]) THEN <<>>
          ELSE WithHeadingType(RowSources(tables[k].rows), heading)])

\* lines 155-185 for the heading at index h
HeadingSources(body, h) == TablesSources(CollectedTables(body, h), trim(body[h].text))

\* lines 154-186: every h2 and h3, in document order
SectionPass(body) ==
    Flatten([h \in 1..Len(body) |->
                IF IsHeading(body[h]) THEN HeadingSources(body, h) ELSE <<>>])

\* table.item-drops, table.wikitable
MatchesFallbackSelector(t) ==
    \E i \in 1..Len(t.classes) : t.classes[i] \in {ClassItemDrops, ClassWikitable}

\* lines 190-193 for the tables the selector of line 189 is matched against
SelectedSources(all) ==
    Flatten([k \in 1..Len(all) |->
          IF MatchesFallbackSelector(all[k]) THEN RowSources(all[k].rows) ELSE <<>>])

\* lines 189-194: the page-wide pass
FallbackPass(body) == SelectedSources(Flatten([j \in 1..Len(body) |-> body[j].tables]))

\* line 74: $("h1#firstHeading").text().trim() || itemName
ItemTitle(h1, itemName) == IF h1 # <<>> THEN h1 ELSE itemName

parseItemPage(html, itemName) ==
    [sources |-> SectionPass(html.body) \o FallbackPass(html.body),
     itemTitle |-> ItemTitle(trim(html.h1), itemName)]

----------------------------------------------------------------------------
(* loadLocalChanceDrops, vite.config.ts:200-239                            *)
(*                                                                         *)
(* The directory is None when public/chance_drops does not exist, else     *)
(* Some(files); a file is [fname, json] with json None when the file does  *)
(* not parse, else Some([name, dropTableSections]); a section is           *)
(* [header, items], an item [itemId, name, rarity]; every field optional.  *)

\* lines 214-228 for one section of one file
SectionDrops(f, json, sec, itemName, itemId) ==
    LET items == IF IsSome(sec.items) THEN Val(sec.items) ELSE <<>>
    IN Flatten([i \in 1..Len(items) |->
          IF items[i].itemId = Some(itemId) \/ items[i].name = Some(itemName)
          THEN <<[sourceName |-> IF IsSome(json.name) /\ Val(json.name) # <<>>
                                 THEN Val(json.name) ELSE f,
                  type |-> TypeMonster,
                  dropRateRaw |-> items[i].rarity,
                  dropRateNumeric |-> parseDropRateNumeric(items[i].rarity),
                  quantity |-> None,
                  requirements |-> None,
                  notes |-> sec.header,
                  wikiUrl |-> None]>>
          ELSE <<>>])

\* lines 207-234 for one file
FileDrops(file, itemName, itemId) ==
    IF ~IsSome(file.json) THEN <<>>
    ELSE LET json == Val(file.json)
         IN IF ~IsSome(json.dropTableSections) THEN <<>>
            ELSE LET secs == Val(json.dropTableSections)
                 IN Flatten([k \in 1..Len(secs) |->
                       SectionDrops(file.fname, json, secs[k], itemName, itemId)])

loadLocalChanceDrops(dir, itemName, itemId) ==
    IF ~IsSome(dir) THEN <<>>
    ELSE Flatten([k \in 1..Len(Val(dir)) |-> FileDrops(Val(dir)[k], itemName, itemId)])

----------------------------------------------------------------------------
(* The merge/dedup loop of the handler, vite.config.ts:278-291             *)

\* line 287: `${s.sourceName}|${s.type}|${s.dropRateRaw ?? ""}`
DedupKey(s) ==
    s.sourceName \o <<"|">> \o s.type \o <<"|">>
        \o (IF IsSome(s.dropRateRaw) THEN Val(s.dropRateRaw) ELSE <<>>)

\* lines 285-291: keep s unless an earlier element has the same key
RECURSIVE DedupLoop(_, _, _)
DedupLoop(combined, seen, out) ==
    IF combined = <<>> THEN out
    ELSE LET s == Head(combined)
             key == DedupKey(s)
         IN IF key \in seen THEN DedupLoop(Tail(combined), seen, out)
            ELSE DedupLoop(Tail(combined), seen \cup {key}, Append(out, s))

\* lines 279-291
MergeSources(localDrops, sources) == DedupLoop(localDrops \o sources, {}, <<>>)

----------------------------------------------------------------------------
(* The GET /item-drops handler, vite.config.ts:246-301, and loadMapping,   *)
(* vite.config.ts:30-36.  The handler runs on one event loop: the code     *)
(* between two awaits runs without interruption, so one action is the code *)
(* from the arrival of a request, or from the resumption after an await,   *)
(* to the next await or to the response.                                   *)

\* number of requests that arrive
NumRequests == 3

Requests == 1..NumRequests

\* Number(itemIdQ), line 250, for text made of decimal digits, white space and
\* letters that start no numeric literal: white space is trimmed, the empty
\* string is 0, a run of digits is its value, anything else is NaN (None)
ToNumber(s) ==
    LET t == trim(s)
    IN IF t = <<>> THEN Some(0)
       ELSE IF \A i \in 1..Len(t) : t[i] \in DigitChars THEN Some(DecVal(t))
       ELSE None

\* String(n) of a natural number, as in the template strings of lines 253 and 264
RECURSIVE NumberToString(_)
NumberToString(n) ==
    IF n < 10 THEN <<DigitChar(n)>>
    ELSE NumberToString(n \div 10) \o <<DigitChar(n % 10)>>

\* line 253
cacheKey(itemId) == KeyPrefix \o NumberToString(itemId)

\* lines 37-41, with mappingCache given: None for null
itemIdToName(cache, id) ==
    IF ~IsSome(cache) THEN None
    ELSE LET hits == {i \in 1..Len(Val(cache)) : Val(cache)[i].id = id}
         IN IF hits = {} THEN None
            ELSE Some(Val(cache)[CHOOSE i \in hits : \A j \in hits : i <= j].name)

\* lines 44-46
itemNameToWikiPath(name) == [i \in 1..Len(name) |-> IF name[i] = " " THEN "_" ELSE name[i]]

\* line 264
ResolveName(cache, itemId) ==
    IF IsSome(itemIdToName(cache, itemId)) THEN Val(itemIdToName(cache, itemId))
    ELSE ItemPrefix \o NumberToString(itemId)

\* lines 265-266
WikiUrl(itemName) == WikiBase \o itemNameToWikiPath(itemName)

\* the response bodies
ErrMissing == "Missing ?itemId="
ErrInvalid == "Invalid itemId"
ErrFailed == "Failed to fetch item drops"
ErrorBody(msg) == [error |-> Some(msg), data |-> None]
DataBody(resp) == [error |-> None, data |-> Some(resp)]

\* a request that has not arrived
NewRequest ==
    [pc |-> "new", query |-> [itemId |-> None, id |-> None], itemId |-> None,
     itemName |-> <<>>, url |-> <<>>, status |-> 0, body |-> [error |-> None, data |-> None],
     mapAttempts |-> 0, pageAttempts |-> 0, cachedAtStart |-> None, failure |-> "none"]

\* line 248: req.query.itemId ?? req.query.id
ItemIdQ(q) == IF IsSome(q.itemId) THEN q.itemId ELSE q.id

\* line 249: !itemIdQ
IsMissing(itemIdQ) == ~IsSome(itemIdQ) \/ Val(itemIdQ) = <<>>

\* line 255: server.itemDropsCache ?? new Map()
EnsureMap(cache) == IF IsSome(cache) THEN cache ELSE Some(<<>>)

\* line 258: serverCache.has(cacheKey)
CacheHas(map, key) == key \in DOMAIN map

\* a handler that answers without storing the response
CacheSetNothing(map, key, resp) == map

\* line 294: serverCache.set(cacheKey, deduped)
CacheSet(map, key, resp) ==
    [k \in (DOMAIN map) \cup {key} |-> IF k = key THEN resp ELSE map[k]]

\* res.status(code).json(body), ending the handler
Respond(rq, code, body) == [rq EXCEPT !.pc = "done", !.status = code, !.body = body]

\* lines 297-300: the catch block
CatchError(rq, what) == [Respond(rq, 500, ErrorBody(ErrFailed)) EXCEPT !.failure = what]

\* lines 264-269, up to the await of the page fetch
StartPageFetch(rq, cache) ==
    LET itemName == ResolveName(cache, Val(rq.itemId))
    IN [rq EXCEPT !.pc = "awaitPage", !.itemName = itemName, !.url = WikiUrl(itemName),
                  !.pageAttempts = @ + 1]

\* lines 31-33: loadMapping up to its await, then the handler's await of it
StartLoadMapping(rq, cache) ==
    IF IsSome(cache) THEN StartPageFetch(rq, cache)
    ELSE [rq EXCEPT !.pc = "awaitMapping", !.mapAttempts = @ + 1]

\* lines 275-291: the response built from the parsed page, before line 293
\* sets its sourceUrl
Deduped(itemId, parsed, dir) ==
    [itemId |-> itemId,
     itemName |-> parsed.itemTitle,
     sources |-> MergeSources(loadLocalChanceDrops(dir, parsed.itemTitle, itemId),
                              parsed.sources),
     sourceUrl |-> None]

\* ---- sample data of the environment ----

CellOf(text) == [text |-> text, href |-> None]
LinkedCell(text, href) == [text |-> text, href |-> Some(href)]
HeadingEl(tag, text) == [tag |-> tag, text |-> text, tables |-> <<>>]
TableEl(classes, rows) ==
    [tag |-> "table", text |-> <<>>, tables |-> <<[classes |-> classes, rows |-> rows]>>]

DragonBones == <<"D","r","a","g","o","n"," ","b","o","n","e","s">>
HillGiant == <<"H","i","l","l"," ","g","i","a","n","t">>

\* the row of the end-to-end scenario of the specification, section 8
HillGiantRow ==
    <<LinkedCell(HillGiant, <<"/","w","/","H","i","l","l","_","g","i","a","n","t">>), CellOf(<<"1">>), CellOf(<<"1","/","1","2","9">>),
      CellOf(<<"R","a","r","e"," ","d","r","o","p">>)>>

\* a row whose source the local drop files do not hold
GoblinRow == <<CellOf(<<"G","o","b","l","i","n">>), CellOf(<<"2">>), CellOf(<<"C","o","m","m","o","n">>)>>

PageHillGiant ==
    [h1 |-> DragonBones,
     body |-> <<HeadingEl("h2", <<"D","r","o","p"," ","s","o","u","r","c","e","s">>),
                TableEl(<<ClassWikitable, ClassItemDrops>>, <<HillGiantRow, GoblinRow>>)>>]

PageNoTables == [h1 |-> <<>>, body |-> <<HeadingEl("h2", <<"T","r","i","v","i","a">>)>>]

ServerPages == {PageHillGiant, PageNoTables}

MappingA == <<[id |-> 2, name |-> <<"C","o","i","n","s">>], [id |-> 1, name |-> DragonBones]>>
Mappings == {MappingA}

HillGiantFile ==
    [fname |-> <<"H","i","l","l","_","g","i","a","n","t","_","2","8",".","j","s","o","n">>,
     json |-> Some([name |-> Some(HillGiant),
                    dropTableSections |-> Some(<<
                        [header |-> Some(<<"1","0","0","%">>),
                         items |-> Some(<<[itemId |-> Some(1), name |-> Some(DragonBones),
                                           rarity |-> Some(<<"1","/","1","2","9">>)],
                                          [itemId |-> None, name |-> Some(<<"C","o","i","n","s">>),
                                           rarity |-> Some(<<"C","o","m","m","o","n">>)]>>)]>>)])]

BrokenFile == [fname |-> <<"b","r","o","k","e","n",".","j","s","o","n">>, json |-> None]

\* public/chance_drops as the server finds it
ChanceDrops == Some(<<BrokenFile, HillGiantFile>>)

\* the query strings of the requests: no parameter, the alias alone, an empty
\* itemId beside an alias, white space, a word, and an item id
Queries ==
    {[itemId |-> None, id |-> None],
     [itemId |-> None, id |-> Some(<<"1">>)],
     [itemId |-> Some(<<>>), id |-> Some(<<"1">>)],
     [itemId |-> Some(<<" ">>), id |-> None],
     [itemId |-> Some(<<"a">>), id |-> None],
     [itemId |-> Some(<<"1">>), id |-> None]}

\* the item ids and the item names a request can hold when its page arrives
ItemIds ==
    {Val(ToNumber(Val(ItemIdQ(q)))) :
        q \in {p \in Queries : ~IsMissing(ItemIdQ(p)) /\ IsSome(ToNumber(Val(ItemIdQ(p))))}}
FetchedNames == {ResolveName(Some(m), id) : m \in Mappings, id \in ItemIds}

\* lines 272-291 for every page, item and directory of this environment,
\* evaluated once and looked up by the requests
MergedPages ==
    [dir \in {ChanceDrops} |-> [html \in ServerPages |-> [id \in ItemIds |->
        [name \in FetchedNames |-> Deduped(id, parseItemPage(html, name), dir)]]]]

\* lines 272-293: the response built from the fetched page
BuildResponse(rq, html, dir) ==
    [MergedPages[dir][html][Val(rq.itemId)][rq.itemName] EXCEPT !.sourceUrl = Some(rq.url)]

\* ---- the actions ----

\* line 250: the request with its numeric item id; cachedAtStart records, for the
\* properties, the entry the per-item cache holds for that id at this moment
Validated(rq, itemId, map) ==
    [rq EXCEPT !.itemId = itemId,
               !.cachedAtStart = IF cacheKey(Val(itemId)) \in DOMAIN map
                                 THEN Some(map[cacheKey(Val(itemId))]) ELSE None]

\* lines 247-263: a request arrives and runs to its first await or to its response
Arrive(r, q) ==
    /\ r = nextReq
    /\ r <= NumRequests
    /\ nextReq' = nextReq + 1
    /\ LET rq == [req[r] EXCEPT !.query = q]
           itemIdQ == ItemIdQ(q)
           itemId == ToNumber(Val(itemIdQ))
           map == Val(EnsureMap(itemDropsCache))
           key == cacheKey(Val(itemId))
       IN IF IsMissing(itemIdQ)
          THEN /\ req' = [req EXCEPT ![r] = Respond(rq, 400, ErrorBody(ErrMissing))]
               /\ UNCHANGED itemDropsCache
          ELSE IF ~IsSome(itemId)
          THEN /\ req' = [req EXCEPT ![r] = Respond(rq, 400, ErrorBody(ErrInvalid))]
               /\ UNCHANGED itemDropsCache
          ELSE /\ itemDropsCache' = EnsureMap(itemDropsCache)
               /\ IF CacheHas(map, key)
                  THEN req' = [req EXCEPT ![r] =
                                 Respond(Validated(rq, itemId, map), 200, DataBody(map[key]))]
                  ELSE req' = [req EXCEPT ![r] =
                                 StartLoadMapping(Validated(rq, itemId, map), mappingCache)]
    /\ UNCHANGED <<mappingCache, mappingAssigned, chanceDropsDir>>

\* lines 33-36 and 264-269: the mapping service answers request r with data
MappingResponse(r, data) ==
    /\ req[r].pc = "awaitMapping"
    /\ mappingCache' = Some(data)
    /\ mappingAssigned' = mappingAssigned + 1
    /\ req' = [req EXCEPT ![r] = StartPageFetch(req[r], Some(data))]
    /\ UNCHANGED <<itemDropsCache, nextReq, chanceDropsDir>>

\* lines 33 and 297-300: the mapping fetch of request r fails
MappingError(r) ==
    /\ req[r].pc = "awaitMapping"
    /\ req' = [req EXCEPT ![r] = CatchError(req[r], "mapping")]
    /\ UNCHANGED <<mappingCache, mappingAssigned, itemDropsCache, nextReq, chanceDropsDir>>

\* lines 269-296: the wiki answers request r with the page html
PageResponse(r, html) ==
    /\ req[r].pc = "awaitPage"
    /\ LET deduped == BuildResponse(req[r], html, chanceDropsDir)
       IN /\ itemDropsCache' =
                Some(CacheSet(Val(itemDropsCache), cacheKey(Val(req[r].itemId)), deduped))
          /\ req' = [req EXCEPT ![r] = Respond(req[r], 200, DataBody(deduped))]
    /\ UNCHANGED <<mappingCache, mappingAssigned, nextReq, chanceDropsDir>>

\* lines 269 and 297-300: the page fetch of request r fails
PageError(r) ==
    /\ req[r].pc = "awaitPage"
    /\ req' = [req EXCEPT ![r] = CatchError(req[r], "page")]
    /\ UNCHANGED <<mappingCache, mappingAssigned, itemDropsCache, nextReq, chanceDropsDir>>

\* values of the variables of the other specifications while one runs
IdleServer ==
    /\ mappingCache = None
    /\ itemDropsCache = None
    /\ req = [r \in Requests |-> NewRequest]
    /\ nextReq = 1
    /\ mappingAssigned = 0
IdleParse == raw = None /\ rateResult = Unset
IdleMerge == mOverrides = <<>> /\ mScraped = <<>> /\ mResult = Unset
IdleExtract == xPage = PageNoTables /\ xParsed = Unset /\ xFinal = Unset

Init ==
    /\ IdleServer
    /\ chanceDropsDir = ChanceDrops
    /\ IdleParse /\ IdleMerge /\ IdleExtract

Next ==
    \/ \E r \in Requests, q \in Queries : Arrive(r, q) /\ UNCHANGED <<parseVars, mergeVars, extractVars>>
    \/ \E r \in Requests, data \in Mappings : MappingResponse(r, data) /\ UNCHANGED <<parseVars, mergeVars, extractVars>>
    \/ \E r \in Requests : MappingError(r) /\ UNCHANGED <<parseVars, mergeVars, extractVars>>
    \/ \E r \in Requests, html \in ServerPages : PageResponse(r, html) /\ UNCHANGED <<parseVars, mergeVars, extractVars>>
    \/ \E r \in Requests : PageError(r) /\ UNCHANGED <<parseVars, mergeVars, extractVars>>

Spec == Init /\ [][Next]_vars

----------------------------------------------------------------------------
(* parseDropRateNumeric on its own: every rarity string over a small       *)
(* alphabet up to a length, and the strings of the source's comments       *)

MaxRawLen == 3

RateAlphabet == {"0", "1", "2", "/", ":", "."}

RateSamples ==
    {<<"1","/","1","2","8">>, <<"1","/","1","2","8",";"," ","1","/","6","5">>, <<"5","/","1","2","8">>, <<"1","/","1","0","2",".","4">>, <<"1","/","1",",","0","9","2",".","3">>, <<"1"," ","i","n"," ","2","5","6">>,
     <<"1"," ","I","N"," ","4">>, <<"1"," ",":"," ","8">>, <<"c","o","m","m","o","n">>, <<"R","a","r","e">>, <<"2","/","1",",","0","0","0">>}

RateInputs ==
    {None} \cup {Some(s) : s \in RateSamples}
           \cup {Some(s) : s \in UNION {[1..k -> RateAlphabet] : k \in 0..MaxRawLen}}

ParseRate ==
    /\ rateResult = Unset
    /\ rateResult' = SetTo(parseDropRateNumeric(raw))
    /\ UNCHANGED raw

InitParse ==
    /\ IdleServer /\ chanceDropsDir = ChanceDrops
    /\ raw \in RateInputs /\ rateResult = Unset
    /\ IdleMerge /\ IdleExtract

NextParse == ParseRate /\ UNCHANGED <<serverVars, mergeVars, extractVars>>

SpecParse == InitParse /\ [][NextParse]_vars

----------------------------------------------------------------------------
(* The merge/dedup loop on its own: every pair of short lists of records   *)
(* that the override loader and the extractor produce from a few inputs    *)

MaxOverrides == 1
MaxScraped == 2

MergeNames == {<<"A">>, <<"A","|","m","o","n","s","t","e","r">>}
MergeHeadings == {<<"D","r","o","p"," ","s","o","u","r","c","e","s">>, <<"S","o","u","r","c","e","s">>}

\* rows of one or two cells: a source name, then nothing, a rate or a note
MergeRows ==
    {<<CellOf(n)>> : n \in MergeNames}
    \cup {<<CellOf(n), CellOf(c)>> :
             n \in MergeNames, c \in {<<"1","/","2">>, <<"m","o","n","s","t","e","r","|","1","/","2">>, <<"x">>}}

\* what the section pass of parseItemPage makes of those rows under those headings
ScrapedRecords ==
    {WithHeadingType(parseSourceRow(row), h)[1] : row \in MergeRows, h \in MergeHeadings}

\* a file of public/chance_drops with one section that holds item 1
OverrideFile(name, rarity, header) ==
    [fname |-> <<"f",".","j","s","o","n">>,
     json |-> Some([name |-> Some(name),
                    dropTableSections |-> Some(<<
                        [header |-> header,
                         items |-> Some(<<[itemId |-> Some(1), name |-> None,
                                           rarity |-> rarity]>>)]>>)])]

\* what loadLocalChanceDrops makes of such files
OverrideRecords ==
    {loadLocalChanceDrops(Some(<<OverrideFile(n, rate, header)>>), DragonBones, 1)[1] :
        n \in MergeNames,
        rate \in {None, Some(<<>>), Some(<<"1","/","2">>), Some(<<"m","o","n","s","t","e","r","|","1","/","2">>)},
        header \in {None, Some(<<"x">>)}}

ListsUpTo(S, n) == UNION {[1..k -> S] : k \in 0..n}

Merge ==
    /\ mResult = Unset
    /\ mResult' = SetTo(MergeSources(mOverrides, mScraped))
    /\ UNCHANGED <<mOverrides, mScraped>>

InitMerge ==
    /\ IdleServer /\ chanceDropsDir = ChanceDrops
    /\ IdleParse
    /\ mOverrides \in ListsUpTo(OverrideRecords, MaxOverrides)
    /\ mScraped \in ListsUpTo(ScrapedRecords, MaxScraped)
    /\ mResult = Unset
    /\ IdleExtract

NextMerge == Merge /\ UNCHANGED <<serverVars, parseVars, extractVars>>

SpecMerge == InitMerge /\ [][NextMerge]_vars

----------------------------------------------------------------------------
(* parseItemPage and the merge that follows it, on their own: pages with   *)
(* one table of one row, under a heading or not, and some larger pages     *)

MaxCells == 4

ExtractCellTexts == {<<>>, HillGiant, <<"2">>, <<"1","/","1","2","9">>, <<" ","R","a","r","e"," "," ","d","r","o","p"," ">>}
ExtractHeadings == {<<"D","r","o","p"," ","s","o","u","r","c","e","s">>, <<"C","h","e","s","t","s">>}
ExtractClasses == {<<ClassWikitable>>, <<<<"s","o","r","t","a","b","l","e">>>>}

RowsOfLength ==
    UNION {{[i \in 1..k |-> CellOf(texts[i])] : texts \in [1..k -> ExtractCellTexts]} :
              k \in 0..MaxCells}

OneRowPages ==
    {[h1 |-> DragonBones, body |-> <<HeadingEl("h2", h), TableEl(c, <<row>>)>>] :
        h \in ExtractHeadings, c \in ExtractClasses, row \in RowsOfLength}
    \cup
    {[h1 |-> <<>>, body |-> <<TableEl(c, <<row>>)>>] :
        c \in ExtractClasses, row \in RowsOfLength}

\* two tables under an h3, one of them inside a div, then a table under an h2
PageTwoSections ==
    [h1 |-> <<" ","D","r","a","g","o","n"," ","b","o","n","e","s"," ">>,
     body |-> <<HeadingEl("h3", <<"T","h","i","e","v","i","n","g">>),
                [tag |-> "div", text |-> <<>>,
                 tables |-> <<[classes |-> <<ClassItemDrops>>, rows |-> <<HillGiantRow>>],
                              [classes |-> <<>>, rows |-> <<>>]>>],
                HeadingEl("h2", <<"S","h","o","p"," ","l","o","c","a","t","i","o","n","s">>),
                TableEl(<<<<"i","n","f","o","b","o","x">>>>,
                        <<<<CellOf(<<"F","i","s","h","i","n","g"," ","s","p","o","t">>), CellOf(<<"1","0","g","p">>)>>,
                          <<LinkedCell(<<"C","a","s","k","e","t">>, <<"h","t","t","p","s",":","/","/","e","x","a","m","p","l","e",".","o","r","g","/","c">>),
                            CellOf(<<"1", EnDash, "3">>), CellOf(<<"c","l","u","e">>)>>>>)>>]

ExtractPages == OneRowPages \cup {PageHillGiant, PageNoTables, PageTwoSections}

ExtractPage ==
    /\ xParsed = Unset
    /\ xParsed' = SetTo(parseItemPage(xPage, <<"I","t","e","m","_","1">>))
    /\ UNCHANGED <<xPage, xFinal>>

\* lines 275-291 after parseItemPage
MergeExtracted ==
    /\ IsSet(xParsed)
    /\ xFinal = Unset
    /\ xFinal' = SetTo(MergeSources(loadLocalChanceDrops(chanceDropsDir, xParsed[2].itemTitle, 1),
                                    xParsed[2].sources))
    /\ UNCHANGED <<xPage, xParsed>>

InitExtract ==
    /\ IdleServer /\ chanceDropsDir = None
    /\ IdleParse /\ IdleMerge
    /\ xPage \in ExtractPages /\ xParsed = Unset /\ xFinal = Unset

NextExtract ==
    \/ ExtractPage /\ UNCHANGED <<serverVars, parseVars, mergeVars>>
    \/ MergeExtracted /\ UNCHANGED <<serverVars, parseVars, mergeVars>>

SpecExtract == InitExtract /\ [][NextExtract]_vars

----------------------------------------------------------------------------
(* Properties                                                              *)

Arrived(r) == req[r].pc # "new"
Done(r) == req[r].pc = "done"

\* r passed validation and found no entry for its item id in the per-item cache
IsCacheMiss(r) == IsSome(req[r].itemId) /\ ~IsSome(req[r].cachedAtStart)

\* r1 has ended with a 200 whose response it built and stored itself
HasStored(r1) == IsCacheMiss(r1) /\ Done(r1) /\ req[r1].status = 200

\* C1: once a request for item id X has stored a response in the per-item
\* cache, every request for X that arrives later is answered at once with
\* status 200 and that response, and starts neither a mapping load nor a page
\* fetch.
C1_LaterRequestsGetStored ==
    [][\A r, r1 \in Requests :
          (/\ req[r].pc = "new" /\ req'[r].pc # "new"
           /\ HasStored(r1)
           /\ req'[r].itemId = req[r1].itemId)
              => /\ req'[r].pc = "done"
                 /\ req'[r].status = 200
                 /\ req'[r].body = req[r1].body
                 /\ req'[r].mapAttempts = 0
                 /\ req'[r].pageAttempts = 0]_vars

\* C2: the mapping is fetched successfully, and mappingCache assigned, at most
\* once in the life of the process, whatever the interleaving of the requests.
C2_MappingAssignedOnce == mappingAssigned <= 1

\* C3: two requests for the same uncached item id never both miss the cache
\* and both fetch the page: while no fetch has failed, at most one request per
\* item id has started a page fetch.
C3_OneFetchPerItem ==
    (\A r \in Requests : req[r].failure = "none") =>
        \A r1, r2 \in Requests :
            (r1 # r2 /\ IsSome(req[r1].itemId) /\ req[r1].itemId = req[r2].itemId)
                => ~(req[r1].pageAttempts >= 1 /\ req[r2].pageAttempts >= 1)

\* the parameter the handler reads: itemId, or the alias id when itemId is absent
QueryParam(q) == IF IsSome(q.itemId) THEN q.itemId ELSE q.id

\* a decimal numeral
IsNumeral(s) == s # <<>> /\ \A i \in 1..Len(s) : s[i] \in DigitChars

\* C4: a request without an item id parameter (or with an empty one) is answered
\* 400 "Missing ?itemId=", one whose parameter is present but not numeric is
\* answered 400 "Invalid itemId", and neither starts a mapping load or a page
\* fetch.
C4_BadIdRejected ==
    \A r \in Requests :
        Arrived(r) =>
            LET p == QueryParam(req[r].query)
                absent == ~IsSome(p) \/ Val(p) = <<>>
            IN /\ absent =>
                    /\ req[r].status = 400
                    /\ req[r].body = ErrorBody(ErrMissing)
                    /\ req[r].mapAttempts = 0 /\ req[r].pageAttempts = 0
               /\ (~absent /\ ~IsNumeral(Val(p))) =>
                    /\ req[r].status = 400
                    /\ req[r].body = ErrorBody(ErrInvalid)
                    /\ req[r].mapAttempts = 0 /\ req[r].pageAttempts = 0

\* the response is a full ItemDropsResponse for the request's item id
IsCompleteResponse(r, resp) ==
    /\ DOMAIN resp = {"itemId", "itemName", "sources", "sourceUrl"}
    /\ resp.itemId = Val(req[r].itemId)
    /\ resp.itemName # <<>>
    /\ resp.sourceUrl = Some(req[r].url)

\* C5, the state part: a cache-miss request attempts each network operation at
\* most once, a failed mapping load or page fetch gives the 500, and a finished
\* cache-miss request has a 200 with a complete response or the 500.
C5_Outcomes ==
    \A r \in Requests :
        /\ req[r].mapAttempts <= 1
        /\ req[r].pageAttempts <= 1
        /\ req[r].failure # "none" =>
              Done(r) /\ req[r].status = 500 /\ req[r].body = ErrorBody(ErrFailed)
        /\ (IsCacheMiss(r) /\ Done(r)) =>
              \/ /\ req[r].status = 200
                 /\ IsSome(req[r].body.data)
                 /\ IsCompleteResponse(r, Val(req[r].body.data))
                 /\ req[r].failure = "none"
              \/ /\ req[r].status = 500
                 /\ req[r].body = ErrorBody(ErrFailed)
                 /\ req[r].failure # "none"

\* C5, the step part: the step that ends a cache-miss request with 200 stores
\* the response it returns under the request's key, and the step that ends it
\* with 500 leaves the per-item cache as it was.
C5_EndingStep ==
    \A r \in Requests :
        (req[r].pc \in {"awaitMapping", "awaitPage"} /\ req'[r].pc = "done") =>
            \/ /\ req'[r].status = 200
               /\ cacheKey(Val(req[r].itemId)) \in DOMAIN Val(itemDropsCache')
               /\ DataBody(Val(itemDropsCache')[cacheKey(Val(req[r].itemId))]) = req'[r].body
            \/ /\ req'[r].status = 500
               /\ itemDropsCache' = itemDropsCache

\* C5: every cache-miss request ends either with a 200 and a complete response
\* that is stored in the per-item cache, or with the 500 and the per-item cache
\* unchanged; a failed mapping load or page fetch gives the 500; each network
\* operation is attempted at most once per request.
C5_MissEndsStoredOrFailed == [](C5_Outcomes) /\ [][C5_EndingStep]_vars

\* C5 witness: one cache-miss request has ended with the 200 and another, after
\* a failed page fetch, with the 500
C5_Witness ==
    \E r1, r2 \in Requests :
        /\ IsCacheMiss(r1) /\ Done(r1) /\ req[r1].status = 200
        /\ IsCacheMiss(r2) /\ Done(r2) /\ req[r2].status = 500
        /\ req[r2].failure = "page" /\ req[r2].pageAttempts = 1

\* the dedup key the specification gives: the three fields, an absent rate as empty
KeyFields(s) ==
    <<s.sourceName, s.type, IF IsSome(s.dropRateRaw) THEN Val(s.dropRateRaw) ELSE <<>>>>

\* the elements of list whose index is in keep, in order
RECURSIVE KeepFrom(_, _, _)
KeepFrom(list, keep, i) ==
    IF i > Len(list) THEN <<>>
    ELSE (IF i \in keep THEN <<list[i]>> ELSE <<>>) \o KeepFrom(list, keep, i + 1)

\* overrides ++ scraped without the records that have an earlier record with the
\* same three fields
FirstOfEachKey(list) ==
    KeepFrom(list,
             {i \in 1..Len(list) : \A j \in 1..(i - 1) : KeyFields(list[j]) # KeyFields(list[i])},
             1)

\* C6: the merged list is overrides ++ scraped with every record removed that
\* has an earlier record with the same sourceName, type and dropRateRaw (absent
\* as empty); the kept records are unmodified and in first-seen order.
C6_MergeKeepsFirstOfEachKey ==
    IsSet(mResult) => mResult[2] = FirstOfEachKey(mOverrides \o mScraped)

\* C7: parseDropRateNumeric returns null or a probability p with 0 < p <= 1.
C7_RateInUnitInterval ==
    IsSet(rateResult) =>
        \/ rateResult[2] = None
        \/ /\ 0 < Val(rateResult[2]).n
           /\ Val(rateResult[2]).n <= Val(rateResult[2]).d

\* all rows of all tables of a page
PageTables(page) == Flatten([j \in 1..Len(page.body) |-> page.body[j].tables])
RowCount(page) ==
    Len(Flatten([k \in 1..Len(PageTables(page)) |-> PageTables(page)[k].rows]))

\* C8: each table row contributes at most one DropSource to the final sources
\* list, also when its table is scanned by the heading pass and by the
\* page-wide pass.
C8_AtMostOneSourcePerRow ==
    IsSet(xFinal) => Len(xFinal[2]) <= RowCount(xPage)

\* C9: once the per-item cache holds a response for an item id, the entry is
\* never removed and never replaced by a different response.
C9_EntriesNeverReplaced ==
    [][IsSome(itemDropsCache) =>
          \A k \in DOMAIN Val(itemDropsCache) :
              /\ k \in DOMAIN Val(itemDropsCache')
              /\ Val(itemDropsCache')[k] = Val(itemDropsCache)[k]]_vars

\* the page holds exactly one table, of a drop-table class, with exactly one row
IsOneDropRowPage(page) ==
    /\ Len(PageTables(page)) = 1
    /\ MatchesFallbackSelector(PageTables(page)[1])
    /\ Len(PageTables(page)[1].rows) = 1

TheRow(page) == PageTables(page)[1].rows[1]
CellText(row, i) == trim(row[i].text)

====
